---- MODULE Spec2Model ----
(***************************************************************************)
(* Model of the peer-review state of res-peer: review/src/state.rs.        *)
(* The persisted views of `Review` are the variables; every method of      *)
(* `impl Review` is one action.  MapView<K, V> is a function whose DOMAIN  *)
(* is the set of stored keys, RegisterView<u16> is a number whose default  *)
(* value is 0, Option<T> is the empty sequence (None) or <<t>> (Some(t)),  *)
(* and the HashMap `reviewers` of a record is the set of its keys.         *)
(***************************************************************************)
EXTENDS Integers, FiniteSets, Sequences, TLC

\* ------------------------------------------------------------------------
\* Bounds of the model
\* ------------------------------------------------------------------------

\* Content and asset tallies are never reset by a resolution, so they are
\* capped: no vote is cast on a content/asset whose tally reached MaxTally.
MaxTally == 2

\* u16 arithmetic
U16 == 65536

Owners == {"o1", "o2", "o3", "o4"}
Few == {"o1", "o2"}
Three == {"o1", "o2", "o3"}
Creators == {"o1"}
Resumes == {"cv1", "cv2"}
OneResume == {"cv1"}
Cids == {"cid1"}
CollectionIds == {7}

\* The InitialState values handed to initialize.  The six fields take
\* pairwise different values inside one configuration.
InitialStates ==
    { [content_approved_threshold |-> 3, content_rejected_threshold |-> 4,
       asset_approved_threshold |-> 6, asset_rejected_threshold |-> 7,
       reviewer_approved_threshold |-> a, reviewer_rejected_threshold |-> r]
      : a \in {2, 5}, r \in {1, 2} }

VARIABLES
    reviewers,                    \* MapView<Owner, Reviewer>
    reviewer_number,              \* RegisterView<u16>
    reviewer_applications,        \* MapView<Owner, Reviewer>
    content_applications,         \* MapView<String, Content>
    asset_applications,           \* MapView<u64, Asset>
    content_approved_threshold,   \* RegisterView<u16>
    content_rejected_threshold,
    asset_approved_threshold,
    asset_rejected_threshold,
    reviewer_approved_threshold,
    reviewer_rejected_threshold,
    state,                        \* the InitialState given to initialize
    last                          \* the last call and what it returned

thresholds == <<content_approved_threshold, content_rejected_threshold,
                asset_approved_threshold, asset_rejected_threshold,
                reviewer_approved_threshold, reviewer_rejected_threshold>>

tables == <<reviewers, reviewer_number, reviewer_applications,
            content_applications, asset_applications>>

\* everything the contract persists
store == <<tables, thresholds>>

vars == <<store, state, last>>

\* ------------------------------------------------------------------------
\* Helpers: maps, options, u16
\* ------------------------------------------------------------------------

EmptyMap == << >>

MapInsert(m, k, v) == [x \in (DOMAIN m) \cup {k} |-> IF x = k THEN v ELSE m[x]]

MapRemove(m, k) == [x \in (DOMAIN m) \ {k} |-> m[x]]

MapHas(m, k) == k \in DOMAIN m

None == << >>

Some(x) == <<x>>

\* `x += 1` and `x + 1` on a u16, as the release build computes it (wrapping);
\* no tally or count comes near U16 within the bounds of the model
Inc(x) == (x + 1) % U16

\* the reviewers who cast the valid votes `op` on `key` that follow one
\* another with no other call in between, this call being the last of them
\* (kept for the votes on reviewer applications)
Streak(op, caster, key, ret) ==
    IF op \in {"approve_reviewer", "reject_reviewer"} /\ ret \in {"true", "false"}
    THEN (IF last.op = op /\ last.key = key /\ last.ret = "false"
          THEN last.streak ELSE {}) \cup {caster}
    ELSE {}

\* what a call returned: `ret` is the Ok value or the StateError, `value`
\* the record carried by Ok(Some(record))
Call(op, caster, key, ret, value) ==
    [op |-> op, caster |-> caster, key |-> key, ret |-> ret, value |-> value,
     streak |-> Streak(op, caster, key, ret)]

NoCall ==
    [op |-> "none", caster |-> "none", key |-> "none", ret |-> "none",
     value |-> None, streak |-> {}]

\* ------------------------------------------------------------------------
\* State after construction: every view holds its default
\* ------------------------------------------------------------------------

Init ==
    /\ reviewers = EmptyMap
    /\ reviewer_number = 0
    /\ reviewer_applications = EmptyMap
    /\ content_applications = EmptyMap
    /\ asset_applications = EmptyMap
    /\ content_approved_threshold = 0
    /\ content_rejected_threshold = 0
    /\ asset_approved_threshold = 0
    /\ asset_rejected_threshold = 0
    /\ reviewer_approved_threshold = 0
    /\ reviewer_rejected_threshold = 0
    /\ state = None
    /\ last = NoCall

\* the application has been initialized (the runtime calls initialize once,
\* before any operation)
Initialized == state # None

\* ------------------------------------------------------------------------
\* Review::initialize
\* ------------------------------------------------------------------------

initialize(creator, st) ==
    /\ content_approved_threshold' = st.content_approved_threshold
    /\ content_rejected_threshold' = st.content_rejected_threshold
    /\ asset_approved_threshold' = st.asset_approved_threshold
    /\ asset_rejected_threshold' = st.asset_rejected_threshold
    \* reviewer_rejected_threshold is set twice, reviewer_approved_threshold
    \* is never set and keeps the register's default
    /\ reviewer_rejected_threshold' = st.reviewer_rejected_threshold
    /\ reviewer_approved_threshold' = reviewer_approved_threshold
    /\ reviewers' = MapInsert(reviewers, creator,
                        [reviewer |-> creator, resume |-> None,
                         reviewers |-> {}, approved |-> 1, rejected |-> 0])
    /\ reviewer_number' = 1
    /\ UNCHANGED <<reviewer_applications, content_applications, asset_applications>>
    /\ state' = Some(st)
    /\ last' = Call("initialize", creator, "none", "Ok", None)

\* ------------------------------------------------------------------------
\* Review::is_reviewer
\* ------------------------------------------------------------------------

is_reviewer(owner) == MapHas(reviewers, owner)

\* a failing call: the error is returned before any write
Fails(op, caster, key, err) ==
    /\ UNCHANGED <<store, state>>
    /\ last' = Call(op, caster, key, err, None)

\* ------------------------------------------------------------------------
\* Review::apply_reviewer
\* ------------------------------------------------------------------------

\* apply_reviewer that does not ask whether the owner is already a reviewer
apply_reviewer_no_reviewer_check(owner, resume) ==
    IF MapHas(reviewer_applications, owner)
    THEN Fails("apply_reviewer", owner, owner, "InvalidReviewer")
    ELSE /\ reviewer_applications' = MapInsert(reviewer_applications, owner,
                        [reviewer |-> owner, resume |-> Some(resume),
                         reviewers |-> {}, approved |-> 0, rejected |-> 0])
         /\ UNCHANGED <<reviewers, reviewer_number, content_applications,
                        asset_applications, thresholds, state>>
         /\ last' = Call("apply_reviewer", owner, owner, "Ok", None)

\* apply_reviewer that does not ask whether an application is already pending
apply_reviewer_no_pending_check(owner, resume) ==
    IF is_reviewer(owner)
    THEN Fails("apply_reviewer", owner, owner, "InvalidReviewer")
    ELSE /\ reviewer_applications' = MapInsert(reviewer_applications, owner,
                        [reviewer |-> owner, resume |-> Some(resume),
                         reviewers |-> {}, approved |-> 0, rejected |-> 0])
         /\ UNCHANGED <<reviewers, reviewer_number, content_applications,
                        asset_applications, thresholds, state>>
         /\ last' = Call("apply_reviewer", owner, owner, "Ok", None)

apply_reviewer(owner, resume) ==
    IF is_reviewer(owner)
    THEN Fails("apply_reviewer", owner, owner, "InvalidReviewer")
    ELSE IF MapHas(reviewer_applications, owner)
    THEN Fails("apply_reviewer", owner, owner, "InvalidReviewer")
    ELSE /\ reviewer_applications' = MapInsert(reviewer_applications, owner,
                        [reviewer |-> owner, resume |-> Some(resume),
                         reviewers |-> {}, approved |-> 0, rejected |-> 0])
         /\ UNCHANGED <<reviewers, reviewer_number, content_applications,
                        asset_applications, thresholds, state>>
         /\ last' = Call("apply_reviewer", owner, owner, "Ok", None)

\* ------------------------------------------------------------------------
\* Review::update_reviewer_resume
\* ------------------------------------------------------------------------

\* update_reviewer_resume that stores a new record instead of changing the
\* resume of the stored one
update_reviewer_resume_new_record(owner, resume) ==
    LET record == [reviewer |-> owner, resume |-> Some(resume),
                   reviewers |-> {}, approved |-> 0, rejected |-> 0]
    IN
    IF MapHas(reviewers, owner)
    THEN /\ reviewers' = MapInsert(reviewers, owner, record)
         /\ UNCHANGED <<reviewer_number, reviewer_applications, content_applications,
                        asset_applications, thresholds, state>>
         /\ last' = Call("update_reviewer_resume", owner, owner, "Ok", None)
    ELSE IF MapHas(reviewer_applications, owner)
    THEN /\ reviewer_applications' = MapInsert(reviewer_applications, owner, record)
         /\ UNCHANGED <<reviewers, reviewer_number, content_applications,
                        asset_applications, thresholds, state>>
         /\ last' = Call("update_reviewer_resume", owner, owner, "Ok", None)
    ELSE Fails("update_reviewer_resume", owner, owner, "InvalidReviewer")

update_reviewer_resume(owner, resume) ==
    IF MapHas(reviewers, owner)
    THEN /\ reviewers' = MapInsert(reviewers, owner,
                            [reviewers[owner] EXCEPT !.resume = Some(resume)])
         /\ UNCHANGED <<reviewer_number, reviewer_applications, content_applications,
                        asset_applications, thresholds, state>>
         /\ last' = Call("update_reviewer_resume", owner, owner, "Ok", None)
    ELSE IF MapHas(reviewer_applications, owner)
    THEN /\ reviewer_applications' = MapInsert(reviewer_applications, owner,
                            [reviewer_applications[owner] EXCEPT !.resume = Some(resume)])
         /\ UNCHANGED <<reviewers, reviewer_number, content_applications,
                        asset_applications, thresholds, state>>
         /\ last' = Call("update_reviewer_resume", owner, owner, "Ok", None)
    ELSE Fails("update_reviewer_resume", owner, owner, "InvalidReviewer")

\* ------------------------------------------------------------------------
\* Review::validate_reviewer_review
\* ------------------------------------------------------------------------

validate_reviewer_review(reviewer, candidate) ==
    IF ~is_reviewer(reviewer) THEN "InvalidReviewer"
    ELSE IF MapHas(reviewer_applications, candidate)
    THEN IF reviewer \in reviewer_applications[candidate].reviewers
         THEN "AlreadyReviewed"
         ELSE "Ok"
    ELSE "InvalidReviewer"

\* ------------------------------------------------------------------------
\* Review::approve_reviewer
\* ------------------------------------------------------------------------

\* approve_reviewer that forgets to remove the promoted application
approve_reviewer_keeps_application(owner, candidate) ==
    LET v == validate_reviewer_review(owner, candidate) IN
    IF v # "Ok" THEN Fails("approve_reviewer", owner, candidate, v)
    ELSE
      LET reviewer == [reviewer_applications[candidate] EXCEPT !.approved = Inc(@)]
          applications == MapInsert(reviewer_applications, candidate, reviewer)
      IN
      IF reviewer.approved >= reviewer_approved_threshold \/ reviewer.approved >= reviewer_number
      THEN /\ reviewers' = MapInsert(reviewers, candidate, reviewer)
           /\ reviewer_applications' = applications
           /\ reviewer_number' = Inc(reviewer_number)
           /\ UNCHANGED <<content_applications, asset_applications, thresholds, state>>
           /\ last' = Call("approve_reviewer", owner, candidate, "true", None)
      ELSE /\ reviewer_applications' = applications
           /\ UNCHANGED <<reviewers, reviewer_number, content_applications,
                          asset_applications, thresholds, state>>
           /\ last' = Call("approve_reviewer", owner, candidate, "false", None)

\* approve_reviewer that forgets to count the promoted reviewer
approve_reviewer_no_count(owner, candidate) ==
    LET v == validate_reviewer_review(owner, candidate) IN
    IF v # "Ok" THEN Fails("approve_reviewer", owner, candidate, v)
    ELSE
      LET reviewer == [reviewer_applications[candidate] EXCEPT !.approved = Inc(@)]
          applications == MapInsert(reviewer_applications, candidate, reviewer)
      IN
      IF reviewer.approved >= reviewer_approved_threshold \/ reviewer.approved >= reviewer_number
      THEN /\ reviewers' = MapInsert(reviewers, candidate, reviewer)
           /\ reviewer_applications' = MapRemove(applications, candidate)
           /\ UNCHANGED <<reviewer_number, content_applications, asset_applications,
                          thresholds, state>>
           /\ last' = Call("approve_reviewer", owner, candidate, "true", None)
      ELSE /\ reviewer_applications' = applications
           /\ UNCHANGED <<reviewers, reviewer_number, content_applications,
                          asset_applications, thresholds, state>>
           /\ last' = Call("approve_reviewer", owner, candidate, "false", None)

approve_reviewer(owner, candidate) ==
    LET v == validate_reviewer_review(owner, candidate) IN
    IF v # "Ok" THEN Fails("approve_reviewer", owner, candidate, v)
    ELSE IF ~MapHas(reviewer_applications, candidate)
    THEN Fails("approve_reviewer", owner, candidate, "InvalidReviewer")
    ELSE
      LET reviewer == [reviewer_applications[candidate] EXCEPT !.approved = Inc(@)]
          applications == MapInsert(reviewer_applications, candidate, reviewer)
          approved_threshold == reviewer_approved_threshold
      IN
      IF reviewer.approved >= approved_threshold \/ reviewer.approved >= reviewer_number
      THEN /\ reviewers' = MapInsert(reviewers, candidate, reviewer)
           /\ reviewer_applications' = MapRemove(applications, candidate)
           /\ reviewer_number' = Inc(reviewer_number)
           /\ UNCHANGED <<content_applications, asset_applications, thresholds, state>>
           /\ last' = Call("approve_reviewer", owner, candidate, "true", None)
      ELSE /\ reviewer_applications' = applications
           /\ UNCHANGED <<reviewers, reviewer_number, content_applications,
                          asset_applications, thresholds, state>>
           /\ last' = Call("approve_reviewer", owner, candidate, "false", None)

\* ------------------------------------------------------------------------
\* Review::reject_reviewer
\* ------------------------------------------------------------------------

\* reject_reviewer that compares the tally with the threshold only, not with
\* reviewer_number
reject_reviewer_threshold_only(owner, candidate) ==
    LET v == validate_reviewer_review(owner, candidate) IN
    IF v # "Ok" THEN Fails("reject_reviewer", owner, candidate, v)
    ELSE
      LET reviewer == [reviewer_applications[candidate] EXCEPT !.rejected = Inc(@)]
          applications == MapInsert(reviewer_applications, candidate, reviewer)
      IN
      IF reviewer.rejected >= reviewer_rejected_threshold
      THEN /\ reviewers' = MapInsert(reviewers, candidate, reviewer)
           /\ reviewer_applications' = MapRemove(applications, candidate)
           /\ reviewer_number' = Inc(reviewer_number)
           /\ UNCHANGED <<content_applications, asset_applications, thresholds, state>>
           /\ last' = Call("reject_reviewer", owner, candidate, "true", None)
      ELSE /\ reviewer_applications' = applications
           /\ UNCHANGED <<reviewers, reviewer_number, content_applications,
                          asset_applications, thresholds, state>>
           /\ last' = Call("reject_reviewer", owner, candidate, "false", None)

reject_reviewer(owner, candidate) ==
    LET v == validate_reviewer_review(owner, candidate) IN
    IF v # "Ok" THEN Fails("reject_reviewer", owner, candidate, v)
    ELSE IF ~MapHas(reviewer_applications, candidate)
    THEN Fails("reject_reviewer", owner, candidate, "InvalidReviewer")
    ELSE
      LET reviewer == [reviewer_applications[candidate] EXCEPT !.rejected = Inc(@)]
          applications == MapInsert(reviewer_applications, candidate, reviewer)
          rejected_threshold == reviewer_rejected_threshold
      IN
      IF reviewer.rejected >= rejected_threshold \/ reviewer.rejected >= reviewer_number
      THEN \* the rejected candidate is inserted into `reviewers` and counted
           /\ reviewers' = MapInsert(reviewers, candidate, reviewer)
           /\ reviewer_applications' = MapRemove(applications, candidate)
           /\ reviewer_number' = Inc(reviewer_number)
           /\ UNCHANGED <<content_applications, asset_applications, thresholds, state>>
           /\ last' = Call("reject_reviewer", owner, candidate, "true", None)
      ELSE /\ reviewer_applications' = applications
           /\ UNCHANGED <<reviewers, reviewer_number, content_applications,
                          asset_applications, thresholds, state>>
           /\ last' = Call("reject_reviewer", owner, candidate, "false", None)

\* ------------------------------------------------------------------------
\* Review::validate_content_review, submit_content
\* ------------------------------------------------------------------------

\* validate_content_review that does not ask whether the caster is a reviewer
validate_content_review_any_caster(reviewer, content_cid) ==
    IF MapHas(content_applications, content_cid)
    THEN IF reviewer \in content_applications[content_cid].reviewers
         THEN "AlreadyReviewed"
         ELSE "Ok"
    ELSE "InvalidContent"

validate_content_review(reviewer, content_cid) ==
    IF ~is_reviewer(reviewer) THEN "InvalidReviewer"
    ELSE IF MapHas(content_applications, content_cid)
    THEN IF reviewer \in content_applications[content_cid].reviewers
         THEN "AlreadyReviewed"
         ELSE "Ok"
    ELSE "InvalidContent"

submit_content(content) ==
    /\ content_applications' = MapInsert(content_applications, content.cid, content)
    /\ UNCHANGED <<reviewers, reviewer_number, reviewer_applications,
                   asset_applications, thresholds, state>>
    /\ last' = Call("submit_content", "none", content.cid, "Ok", None)

\* ------------------------------------------------------------------------
\* Review::approve_content, reject_content
\* ------------------------------------------------------------------------

\* approve_content that removes the content it reports as approved
approve_content_removes_resolved(reviewer, content_cid) ==
    LET v == validate_content_review(reviewer, content_cid) IN
    IF v # "Ok" THEN Fails("approve_content", reviewer, content_cid, v)
    ELSE
      LET content == [content_applications[content_cid] EXCEPT !.approved = Inc(@)]
      IN
      /\ UNCHANGED <<reviewers, reviewer_number, reviewer_applications,
                     asset_applications, thresholds, state>>
      /\ IF content.approved >= reviewer_approved_threshold \/ content.approved >= reviewer_number
         THEN /\ content_applications' = MapRemove(content_applications, content_cid)
              /\ last' = Call("approve_content", reviewer, content_cid, "Some", Some(content))
         ELSE /\ content_applications' = MapInsert(content_applications, content_cid, content)
              /\ last' = Call("approve_content", reviewer, content_cid, "None", None)

approve_content(reviewer, content_cid) ==
    LET v == validate_content_review(reviewer, content_cid) IN
    IF v # "Ok" THEN Fails("approve_content", reviewer, content_cid, v)
    ELSE IF ~MapHas(content_applications, content_cid)
    THEN Fails("approve_content", reviewer, content_cid, "InvalidReviewer")
    ELSE
      LET content == [content_applications[content_cid] EXCEPT !.approved = Inc(@)]
          approved_threshold == reviewer_approved_threshold
      IN
      /\ content_applications' = MapInsert(content_applications, content_cid, content)
      /\ UNCHANGED <<reviewers, reviewer_number, reviewer_applications,
                     asset_applications, thresholds, state>>
      /\ IF content.approved >= approved_threshold \/ content.approved >= reviewer_number
         THEN last' = Call("approve_content", reviewer, content_cid, "Some", Some(content))
         ELSE last' = Call("approve_content", reviewer, content_cid, "None", None)

reject_content(reviewer, content_cid) ==
    LET v == validate_content_review(reviewer, content_cid) IN
    IF v # "Ok" THEN Fails("reject_content", reviewer, content_cid, v)
    ELSE IF ~MapHas(content_applications, content_cid)
    THEN Fails("reject_content", reviewer, content_cid, "InvalidReviewer")
    ELSE
      LET content == [content_applications[content_cid] EXCEPT !.rejected = Inc(@)]
          rejected_threshold == reviewer_rejected_threshold
      IN
      /\ content_applications' = MapInsert(content_applications, content_cid, content)
      /\ UNCHANGED <<reviewers, reviewer_number, reviewer_applications,
                     asset_applications, thresholds, state>>
      /\ IF content.rejected >= rejected_threshold \/ content.rejected >= reviewer_number
         THEN last' = Call("reject_content", reviewer, content_cid, "true", None)
         ELSE last' = Call("reject_content", reviewer, content_cid, "false", None)

\* ------------------------------------------------------------------------
\* Review::validate_asset_review, approve_asset, reject_asset
\* ------------------------------------------------------------------------

validate_asset_review(reviewer, collection_id) ==
    IF ~is_reviewer(reviewer) THEN "InvalidReviewer"
    ELSE IF MapHas(asset_applications, collection_id)
    THEN IF reviewer \in asset_applications[collection_id].reviewers
         THEN "AlreadyReviewed"
         ELSE "Ok"
    ELSE "Ok"   \* an unknown collection passes the validation

\* the asset application is stored by the contract layer
submit_asset(asset) ==
    /\ asset_applications' = MapInsert(asset_applications, asset.collection_id, asset)
    /\ UNCHANGED <<reviewers, reviewer_number, reviewer_applications,
                   content_applications, thresholds, state>>
    /\ last' = Call("submit_asset", "none", asset.collection_id, "Ok", None)

approve_asset(reviewer, collection_id) ==
    LET v == validate_asset_review(reviewer, collection_id) IN
    IF v # "Ok" THEN Fails("approve_asset", reviewer, collection_id, v)
    ELSE IF ~MapHas(asset_applications, collection_id)
    THEN Fails("approve_asset", reviewer, collection_id, "InvalidReviewer")
    ELSE
      LET asset == [asset_applications[collection_id] EXCEPT !.approved = Inc(@)]
          approved_threshold == reviewer_approved_threshold
      IN
      /\ asset_applications' = MapInsert(asset_applications, collection_id, asset)
      /\ UNCHANGED <<reviewers, reviewer_number, reviewer_applications,
                     content_applications, thresholds, state>>
      /\ IF asset.approved >= approved_threshold \/ asset.approved >= reviewer_number
         THEN last' = Call("approve_asset", reviewer, collection_id, "true", None)
         ELSE last' = Call("approve_asset", reviewer, collection_id, "false", None)

reject_asset(reviewer, collection_id) ==
    LET v == validate_asset_review(reviewer, collection_id) IN
    IF v # "Ok" THEN Fails("reject_asset", reviewer, collection_id, v)
    ELSE IF ~MapHas(asset_applications, collection_id)
    THEN Fails("reject_asset", reviewer, collection_id, "InvalidReviewer")
    ELSE
      LET asset == [asset_applications[collection_id] EXCEPT !.rejected = Inc(@)]
          rejected_threshold == reviewer_rejected_threshold
      IN
      /\ asset_applications' = MapInsert(asset_applications, collection_id, asset)
      /\ UNCHANGED <<reviewers, reviewer_number, reviewer_applications,
                     content_applications, thresholds, state>>
      /\ IF asset.rejected >= rejected_threshold \/ asset.rejected >= reviewer_number
         THEN last' = Call("reject_asset", reviewer, collection_id, "true", None)
         ELSE last' = Call("reject_asset", reviewer, collection_id, "false", None)

\* ------------------------------------------------------------------------
\* The operations the contract layer delivers, one at a time
\* ------------------------------------------------------------------------

\* a submitted record is fresh: no votes, no voters
NewContent(cid) ==
    [cid |-> cid, reviewers |-> {}, approved |-> 0, rejected |-> 0]

NewAsset(collection_id) ==
    [collection_id |-> collection_id, reviewers |-> {}, approved |-> 0, rejected |-> 0]

\* the cap of the content/asset tallies
BelowCap(m, k) ==
    MapHas(m, k) => m[k].approved + m[k].rejected < MaxTally

Initialize ==
    /\ ~Initialized
    /\ \E creator \in Creators, st \in InitialStates : initialize(creator, st)

ApplyReviewer(O, R) ==
    /\ Initialized
    /\ \E owner \in O, resume \in R : apply_reviewer(owner, resume)

UpdateReviewerResume(O, R) ==
    /\ Initialized
    /\ \E owner \in O, resume \in R : update_reviewer_resume(owner, resume)

ApproveReviewer(O) ==
    /\ Initialized
    /\ \E owner \in O, candidate \in O : approve_reviewer(owner, candidate)

RejectReviewer(O) ==
    /\ Initialized
    /\ \E owner \in O, candidate \in O : reject_reviewer(owner, candidate)

SubmitContent ==
    /\ Initialized
    /\ \E cid \in Cids : submit_content(NewContent(cid))

ApproveContent(O) ==
    /\ Initialized
    /\ \E reviewer \in O, cid \in Cids :
          BelowCap(content_applications, cid) /\ approve_content(reviewer, cid)

RejectContent(O) ==
    /\ Initialized
    /\ \E reviewer \in O, cid \in Cids :
          BelowCap(content_applications, cid) /\ reject_content(reviewer, cid)

SubmitAsset ==
    /\ Initialized
    /\ \E id \in CollectionIds : submit_asset(NewAsset(id))

ApproveAsset(O) ==
    /\ Initialized
    /\ \E reviewer \in O, id \in CollectionIds :
          BelowCap(asset_applications, id) /\ approve_asset(reviewer, id)

RejectAsset(O) ==
    /\ Initialized
    /\ \E reviewer \in O, id \in CollectionIds :
          BelowCap(asset_applications, id) /\ reject_asset(reviewer, id)

\* every operation, over the identities of Few
Next ==
    \/ Initialize
    \/ ApplyReviewer(Few, Resumes)
    \/ UpdateReviewerResume(Few, Resumes)
    \/ ApproveReviewer(Few)
    \/ RejectReviewer(Few)
    \/ SubmitContent
    \/ ApproveContent(Few)
    \/ RejectContent(Few)
    \/ SubmitAsset
    \/ ApproveAsset(Few)
    \/ RejectAsset(Few)

Spec == Init /\ [][Next]_vars

\* the reviewer registry alone, over every identity
NextRegistry ==
    \/ Initialize
    \/ ApplyReviewer(Owners, OneResume)
    \/ UpdateReviewerResume(Owners, OneResume)
    \/ ApproveReviewer(Owners)
    \/ RejectReviewer(Owners)

SpecRegistry == Init /\ [][NextRegistry]_vars

\* registry and content votes, over the identities of Three
NextContent ==
    \/ Initialize
    \/ ApplyReviewer(Three, OneResume)
    \/ UpdateReviewerResume(Three, OneResume)
    \/ ApproveReviewer(Three)
    \/ RejectReviewer(Three)
    \/ SubmitContent
    \/ ApproveContent(Three)
    \/ RejectContent(Three)

SpecContent == Init /\ [][NextContent]_vars

\* ------------------------------------------------------------------------
\* Vocabulary of the properties
\* ------------------------------------------------------------------------

ReviewerVotes == {"approve_reviewer", "reject_reviewer"}
ContentVotes == {"approve_content", "reject_content"}
AssetVotes == {"approve_asset", "reject_asset"}
Votes == ReviewerVotes \cup ContentVotes \cup AssetVotes
ApproveVotes == {"approve_reviewer", "approve_content", "approve_asset"}

Kind(op) ==
    IF op \in ReviewerVotes THEN "reviewer"
    ELSE IF op \in ContentVotes THEN "content" ELSE "asset"

\* the pending table a vote operation works on
Pending(op) ==
    IF op \in ReviewerVotes THEN reviewer_applications
    ELSE IF op \in ContentVotes THEN content_applications
    ELSE asset_applications

\* the same table after the step
PendingAfter(op) ==
    IF op \in ReviewerVotes THEN reviewer_applications'
    ELSE IF op \in ContentVotes THEN content_applications'
    ELSE asset_applications'

\* the call returned Ok(..)
Succeeded(l) == l.ret \in {"true", "false", "Some", "None"}

\* the call reported a resolution: Ok(true) or Ok(Some(record))
Resolved(l) == l.ret \in {"true", "Some"}

Min(a, b) == IF a <= b THEN a ELSE b

\* the tally a vote operation increments
Tally(op, rec) == IF op \in ApproveVotes THEN rec.approved ELSE rec.rejected

\* the threshold of the InitialState for the direction of a vote operation
ConfiguredThreshold(op) ==
    IF op \in ApproveVotes
    THEN state[1].reviewer_approved_threshold
    ELSE state[1].reviewer_rejected_threshold

\* this step is a valid vote (it returned Ok)
ValidVoteStep == last'.op \in Votes /\ Succeeded(last')

\* this step is a vote by the caster of the previous call, which was a valid
\* vote on the same key, whose application is still pending
RepeatedVoteStep ==
    /\ last.op \in Votes
    /\ Succeeded(last)
    /\ MapHas(Pending(last.op), last.key)
    /\ last'.op \in Votes
    /\ Kind(last'.op) = Kind(last.op)
    /\ last'.key = last.key
    /\ last'.caster = last.caster

TypeOK ==
    /\ DOMAIN reviewers \subseteq Owners
    /\ DOMAIN reviewer_applications \subseteq Owners
    /\ DOMAIN content_applications \subseteq Cids
    /\ DOMAIN asset_applications \subseteq CollectionIds
    /\ reviewer_number \in 0..(U16 - 1)

\* ------------------------------------------------------------------------
\* C1
\* ------------------------------------------------------------------------

\* C1: at most one vote per voter.  A valid vote by R on an application that
\* stays pending adds exactly R to the application's voter set, and a second
\* vote by R on it fails with AlreadyReviewed and changes no tally.
C1_AtMostOneVotePerVoter ==
    [][ /\ (ValidVoteStep /\ MapHas(PendingAfter(last'.op), last'.key))
             => /\ last'.caster \notin Pending(last'.op)[last'.key].reviewers
                /\ PendingAfter(last'.op)[last'.key].reviewers
                     = Pending(last'.op)[last'.key].reviewers \cup {last'.caster}
        /\ RepeatedVoteStep
             => /\ last'.ret = "AlreadyReviewed"
                /\ PendingAfter(last'.op) = Pending(last'.op)
      ]_vars

\* ------------------------------------------------------------------------
\* C2
\* ------------------------------------------------------------------------

TallyMatchesVoters(m) ==
    \A k \in DOMAIN m : m[k].approved + m[k].rejected = Cardinality(m[k].reviewers)

\* C2: no tally drift.  Every pending record has approved + rejected equal
\* to the size of its voter set.
C2_NoTallyDrift ==
    /\ TallyMatchesVoters(reviewer_applications)
    /\ TallyMatchesVoters(content_applications)
    /\ TallyMatchesVoters(asset_applications)

\* ------------------------------------------------------------------------
\* C3
\* ------------------------------------------------------------------------

\* C3: quorum rule.  A valid vote resolves the application if and only if
\* the tally of its direction, after the vote, is at least the minimum of
\* the configured threshold of that direction and reviewer_number.
C3_QuorumRule ==
    [][ ValidVoteStep
          => (Resolved(last')
                <=> Tally(last'.op, Pending(last'.op)[last'.key]) + 1
                      >= Min(ConfiguredThreshold(last'.op), reviewer_number))
      ]_vars

\* ------------------------------------------------------------------------
\* C4
\* ------------------------------------------------------------------------

\* C4: rejection extinguishes a candidacy.  When reject_reviewer resolves,
\* the candidate leaves reviewer_applications, is not in reviewers, and
\* reviewer_number is unchanged; no reject vote adds a key to reviewers.
C4_RejectionExtinguishes ==
    [][ /\ (last'.op = "reject_reviewer" /\ last'.ret = "true")
             => /\ ~MapHas(reviewer_applications', last'.key)
                /\ ~MapHas(reviewers', last'.key)
                /\ reviewer_number' = reviewer_number
        /\ last'.op \in {"reject_reviewer", "reject_content", "reject_asset"}
             => DOMAIN reviewers' = DOMAIN reviewers
      ]_vars

\* ------------------------------------------------------------------------
\* C5
\* ------------------------------------------------------------------------

\* the entries of m other than k are the same before and after the step
OthersUnchanged(m, mAfter, k) ==
    /\ (DOMAIN mAfter) \ {k} = (DOMAIN m) \ {k}
    /\ \A x \in (DOMAIN m) \ {k} : mAfter[x] = m[x]

\* C5: promotion side effect.  When approve_reviewer resolves for candidate
\* C, afterwards C is not in reviewer_applications and is in reviewers,
\* reviewer_number is one more than before, every other entry of reviewers
\* and every other pending application is unchanged; and an identity that
\* is a reviewer stays one.
C5_PromotionSideEffect ==
    /\ [][ (last'.op = "approve_reviewer" /\ last'.ret = "true")
             => /\ ~MapHas(reviewer_applications', last'.key)
                /\ MapHas(reviewers', last'.key)
                /\ reviewer_number' = reviewer_number + 1
                /\ OthersUnchanged(reviewers, reviewers', last'.key)
                /\ OthersUnchanged(reviewer_applications, reviewer_applications', last'.key)
                /\ UNCHANGED <<content_applications, asset_applications>>
         ]_vars
    /\ [][ \A o \in Owners : MapHas(reviewers, o) => MapHas(reviewers', o) ]_vars

\* a promotion happened while another candidate and a content were pending
C5_Witness ==
    /\ last.op = "approve_reviewer"
    /\ last.ret = "true"
    /\ MapHas(reviewers, last.key)
    /\ ~MapHas(reviewer_applications, last.key)
    /\ reviewer_number = 2
    /\ reviewer_applications # EmptyMap
    /\ content_applications # EmptyMap

\* ------------------------------------------------------------------------
\* C6
\* ------------------------------------------------------------------------

\* C6: only accredited reviewers can vote.  Every vote operation called by
\* an identity that is not a key of reviewers fails with InvalidReviewer
\* and leaves every table, reviewer_number and the thresholds unchanged.
C6_OnlyReviewersVote ==
    [][ (last'.op \in Votes /\ ~MapHas(reviewers, last'.caster))
          => /\ last'.ret = "InvalidReviewer"
             /\ UNCHANGED store
      ]_vars

\* the vote of a non-reviewer on a pending content failed
C6_Witness ==
    /\ last.op \in ContentVotes
    /\ last.ret = "InvalidReviewer"
    /\ ~MapHas(reviewers, last.caster)
    /\ MapHas(content_applications, last.key)

\* ------------------------------------------------------------------------
\* C7
\* ------------------------------------------------------------------------

\* C7: a failed vote changes nothing and names its cause.  A vote by a
\* reviewer on a key that is not pending fails (InvalidReviewer for a
\* candidate, InvalidContent for a content, some error for an asset), a
\* repeated vote fails with AlreadyReviewed, and every failing vote leaves
\* the whole persisted state unchanged.
C7_FailedVoteNamesCause ==
    [][ last'.op \in Votes
          => /\ (MapHas(reviewers, last'.caster) /\ ~MapHas(Pending(last'.op), last'.key))
                  => /\ ~Succeeded(last')
                     /\ last'.op \in ReviewerVotes => last'.ret = "InvalidReviewer"
                     /\ last'.op \in ContentVotes => last'.ret = "InvalidContent"
             /\ RepeatedVoteStep => last'.ret = "AlreadyReviewed"
             /\ ~Succeeded(last') => UNCHANGED store
      ]_vars

\* ------------------------------------------------------------------------
\* C8
\* ------------------------------------------------------------------------

\* C8: initialization.  After initialize(creator, state), reviewers holds
\* exactly the creator's record (approved 1, rejected 0, no voters),
\* reviewer_number is 1, the three pending tables are empty and each of the
\* six thresholds equals the value of the InitialState.
C8_Initialization ==
    last.op = "initialize"
      => /\ DOMAIN reviewers = {last.caster}
         /\ reviewers[last.caster].approved = 1
         /\ reviewers[last.caster].rejected = 0
         /\ reviewers[last.caster].reviewers = {}
         /\ reviewer_number = 1
         /\ reviewer_applications = EmptyMap
         /\ content_applications = EmptyMap
         /\ asset_applications = EmptyMap
         /\ content_approved_threshold = state[1].content_approved_threshold
         /\ content_rejected_threshold = state[1].content_rejected_threshold
         /\ asset_approved_threshold = state[1].asset_approved_threshold
         /\ asset_rejected_threshold = state[1].asset_rejected_threshold
         /\ reviewer_approved_threshold = state[1].reviewer_approved_threshold
         /\ reviewer_rejected_threshold = state[1].reviewer_rejected_threshold

\* ------------------------------------------------------------------------
\* C9
\* ------------------------------------------------------------------------

\* C9: single-reviewer electorate.  With reviewer_number = 1 a valid vote
\* resolves the application in the direction of the vote: the call reports
\* the resolution, an approved candidate is moved into reviewers and
\* reviewer_number becomes 2, a rejected candidate leaves
\* reviewer_applications and does not enter reviewers.
C9_SingleReviewerElectorate ==
    [][ (reviewer_number = 1 /\ ValidVoteStep)
          => /\ Resolved(last')
             /\ last'.op = "approve_reviewer"
                  => /\ MapHas(reviewers', last'.key)
                     /\ ~MapHas(reviewer_applications', last'.key)
                     /\ reviewer_number' = 2
             /\ last'.op = "reject_reviewer"
                  => /\ ~MapHas(reviewers', last'.key)
                     /\ ~MapHas(reviewer_applications', last'.key)
                     /\ reviewer_number' = 1
      ]_vars

\* ------------------------------------------------------------------------
\* C10
\* ------------------------------------------------------------------------

\* C10: reviewer_number tracks the registry.  After initialize,
\* reviewer_number is the number of keys of reviewers.
C10_CountTracksRegistry ==
    Initialized => reviewer_number = Cardinality(DOMAIN reviewers)

\* three promotions happened, by approving and by rejecting votes
C10_Witness ==
    /\ reviewer_number = 4
    /\ \E o \in DOMAIN reviewers : reviewers[o].rejected > 0
    /\ \E o \in DOMAIN reviewers : reviewers[o].approved > 0 /\ reviewers[o].resume # None

\* ------------------------------------------------------------------------
\* C11
\* ------------------------------------------------------------------------

\* C11: pending and accredited are disjoint, and removal coincides with
\* resolution.  No identity is a key of both reviewer_applications and
\* reviewers; an application leaves reviewer_applications in exactly the
\* steps that are a reviewer vote on it returning true.
C11_DisjointAndRemovedOnResolution ==
    /\ [](DOMAIN reviewer_applications \cap DOMAIN reviewers = {})
    /\ [][ \A c \in Owners :
             (MapHas(reviewer_applications, c) /\ ~MapHas(reviewer_applications', c))
               <=> (last'.op \in ReviewerVotes /\ last'.ret = "true" /\ last'.key = c)
         ]_vars

\* a vote resolved one application while another one stayed pending
C11_Witness ==
    /\ last.op \in ReviewerVotes
    /\ last.ret = "true"
    /\ ~MapHas(reviewer_applications, last.key)
    /\ reviewer_applications # EmptyMap

\* ------------------------------------------------------------------------
\* C12
\* ------------------------------------------------------------------------

\* the record apply_reviewer stores for c, with one of the resumes
FreshApplications(c) ==
    { [reviewer |-> c, resume |-> Some(r), reviewers |-> {}, approved |-> 0, rejected |-> 0]
      : r \in Resumes }

\* C12: application intake.  apply_reviewer(c, resume) fails (with
\* InvalidReviewer, the error of both AlreadyAccredited and
\* DuplicateApplication) when c is a reviewer or has a pending application,
\* and then changes nothing; otherwise it inserts a record for c with zero
\* tallies, no voters and a resume, and changes nothing else.
C12_ApplicationIntake ==
    [][ last'.op = "apply_reviewer"
          => IF MapHas(reviewers, last'.key) \/ MapHas(reviewer_applications, last'.key)
             THEN /\ last'.ret = "InvalidReviewer"
                  /\ UNCHANGED <<store, state>>
             ELSE /\ last'.ret = "Ok"
                  /\ reviewer_applications' \in
                       { MapInsert(reviewer_applications, last'.key, rec)
                         : rec \in FreshApplications(last'.key) }
                  /\ UNCHANGED <<reviewers, reviewer_number, content_applications,
                                 asset_applications, thresholds, state>>
      ]_vars

\* a second application of a candidate with a vote on record was refused
C12_Witness ==
    /\ last.op = "apply_reviewer"
    /\ last.ret = "InvalidReviewer"
    /\ MapHas(reviewer_applications, last.key)
    /\ reviewer_applications[last.key].rejected > 0

\* ------------------------------------------------------------------------
\* C13
\* ------------------------------------------------------------------------

\* InitialState values whose reviewer thresholds exceed the number of
\* reviewers the model can reach
HighThresholds ==
    { [content_approved_threshold |-> 3, content_rejected_threshold |-> 4,
       asset_approved_threshold |-> 6, asset_rejected_threshold |-> 7,
       reviewer_approved_threshold |-> a, reviewer_rejected_threshold |-> r]
      : a \in {5}, r \in {2, 5} }

InitializeHigh ==
    /\ ~Initialized
    /\ \E creator \in Creators, st \in HighThresholds : initialize(creator, st)

\* the reviewer registry under thresholds the electorate cannot reach
NextQuorum ==
    \/ InitializeHigh
    \/ ApplyReviewer(Owners, OneResume)
    \/ UpdateReviewerResume(Owners, OneResume)
    \/ ApproveReviewer(Owners)
    \/ RejectReviewer(Owners)

SpecQuorum == Init /\ [][NextQuorum]_vars

\* C13: never permanently stuck.  When every reviewer has cast one valid
\* vote of one direction on a pending reviewer application, with no other
\* call in between, the vote that completes the round (if not an earlier
\* one) resolves the application: it returns true and the application
\* leaves reviewer_applications, an approved candidate entering reviewers.
C13_NeverStuck ==
    [][ (last'.op \in ReviewerVotes /\ Succeeded(last')
           /\ DOMAIN reviewers \subseteq last'.streak)
          => /\ last'.ret = "true"
             /\ ~MapHas(reviewer_applications', last'.key)
             /\ last'.op = "approve_reviewer" => MapHas(reviewers', last'.key)
      ]_vars

\* three reviewers rejected a candidate one after the other and the third
\* vote resolved the application below the configured threshold
C13_Witness ==
    /\ last.op = "reject_reviewer"
    /\ last.ret = "true"
    /\ Cardinality(last.streak) = 3
    /\ last.streak = DOMAIN reviewers \ {last.key}
    /\ reviewers[last.key].rejected = 3
    /\ reviewers[last.key].rejected < state[1].reviewer_rejected_threshold

\* ------------------------------------------------------------------------
\* C14
\* ------------------------------------------------------------------------

\* the record of a vote operation's target with the operation's tally
\* incremented
Voted(op, rec) ==
    IF op \in ApproveVotes
    THEN [rec EXCEPT !.approved = @ + 1]
    ELSE [rec EXCEPT !.rejected = @ + 1]

ReviewerFaultPoints ==
    {"is_reviewer.get", "validate.get", "first.get", "first.insert",
     "second.get", "reviewers.insert", "applications.remove"}

\* the fallible steps of approve_content
ContentFaultPoints ==
    {"is_reviewer.get", "validate.get", "first.get", "first.insert", "second.get"}

\* approve_reviewer(owner, candidate) whose step `point` fails
approve_reviewer_fault(owner, candidate, point) ==
    LET reviewer == [reviewer_applications[candidate] EXCEPT !.approved = Inc(@)]
        applications == MapInsert(reviewer_applications, candidate, reviewer)
        resolves == \/ reviewer.approved >= reviewer_approved_threshold
                    \/ reviewer.approved >= reviewer_number
    IN
    /\ last' = Call("approve_reviewer", owner, candidate, "ViewError", None)
    /\ UNCHANGED <<reviewer_number, content_applications, asset_applications,
                   thresholds, state>>
    /\ CASE point = "is_reviewer.get" ->
              UNCHANGED <<reviewers, reviewer_applications>>
         [] point = "validate.get" ->
              /\ is_reviewer(owner)
              /\ UNCHANGED <<reviewers, reviewer_applications>>
         [] point \in {"first.get", "first.insert"} ->
              /\ validate_reviewer_review(owner, candidate) = "Ok"
              /\ UNCHANGED <<reviewers, reviewer_applications>>
         [] point = "second.get" ->
              /\ validate_reviewer_review(owner, candidate) = "Ok"
              /\ reviewer_applications' = applications
              /\ UNCHANGED reviewers
         [] point = "reviewers.insert" ->
              /\ validate_reviewer_review(owner, candidate) = "Ok"
              /\ resolves
              /\ reviewer_applications' = applications
              /\ UNCHANGED reviewers
         [] point = "applications.remove" ->
              /\ validate_reviewer_review(owner, candidate) = "Ok"
              /\ resolves
              /\ reviewer_applications' = applications
              /\ reviewers' = MapInsert(reviewers, candidate, reviewer)

\* approve_content(reviewer, content_cid) whose step `point` fails
approve_content_fault(reviewer, content_cid, point) ==
    /\ last' = Call("approve_content", reviewer, content_cid, "ViewError", None)
    /\ UNCHANGED <<reviewers, reviewer_number, reviewer_applications,
                   asset_applications, thresholds, state>>
    /\ CASE point = "is_reviewer.get" ->
              UNCHANGED content_applications
         [] point = "validate.get" ->
              /\ is_reviewer(reviewer)
              /\ UNCHANGED content_applications
         [] point \in {"first.get", "first.insert"} ->
              /\ validate_content_review(reviewer, content_cid) = "Ok"
              /\ UNCHANGED content_applications
         [] point = "second.get" ->
              /\ validate_content_review(reviewer, content_cid) = "Ok"
              /\ content_applications' =
                    MapInsert(content_applications, content_cid,
                        [content_applications[content_cid] EXCEPT !.approved = Inc(@)])

ApproveReviewerFault(O) ==
    /\ Initialized
    /\ \E owner \in O, candidate \in O, point \in ReviewerFaultPoints :
          BelowCap(reviewer_applications, candidate)
            /\ approve_reviewer_fault(owner, candidate, point)

ApproveContentFault(O) ==
    /\ Initialized
    /\ \E reviewer \in O, cid \in Cids, point \in ContentFaultPoints :
          BelowCap(content_applications, cid)
            /\ approve_content_fault(reviewer, cid, point)

\* registry and content votes with storage faults
NextStorage ==
    \/ Initialize
    \/ ApplyReviewer(Few, OneResume)
    \/ ApproveReviewer(Few)
    \/ RejectReviewer(Few)
    \/ SubmitContent
    \/ ApproveContent(Few)
    \/ RejectContent(Few)
    \/ ApproveReviewerFault(Few)
    \/ ApproveContentFault(Few)

SpecStorage == Init /\ [][NextStorage]_vars

\* ------------------------------------------------------------------------
\* C15
\* ------------------------------------------------------------------------

\* C15: vote atomicity under storage failure.  A vote that returns
\* ViewError leaves every table, reviewer_number and the thresholds as
\* they were before the call.
C15_VoteAtomicity ==
    [][ (last'.op \in Votes /\ last'.ret = "ViewError") => UNCHANGED store ]_vars

\* ------------------------------------------------------------------------
\* C16
\* ------------------------------------------------------------------------

\* the reviewer registry with two resume texts, over the identities of Three
NextResume ==
    \/ Initialize
    \/ ApplyReviewer(Three, Resumes)
    \/ UpdateReviewerResume(Three, Resumes)
    \/ ApproveReviewer(Three)
    \/ RejectReviewer(Three)

SpecResume == Init /\ [][NextResume]_vars

\* the maps m with the resume of the record of k replaced by one of Resumes
WithNewResume(m, k) ==
    { MapInsert(m, k, [m[k] EXCEPT !.resume = Some(r)]) : r \in Resumes }

\* C16: update_reviewer_resume(id, text).  If id is a reviewer only the
\* resume of its record in reviewers changes; else if id has a pending
\* application only the resume of that application changes; else the call
\* fails with InvalidReviewer and changes nothing.  Tallies, voters, the
\* keys of the tables, reviewer_number and the thresholds never change.
C16_UpdateResumeFrame ==
    [][ last'.op = "update_reviewer_resume"
          => IF MapHas(reviewers, last'.key)
             THEN /\ last'.ret = "Ok"
                  /\ reviewers' \in WithNewResume(reviewers, last'.key)
                  /\ UNCHANGED <<reviewer_number, reviewer_applications,
                                 content_applications, asset_applications,
                                 thresholds, state>>
             ELSE IF MapHas(reviewer_applications, last'.key)
             THEN /\ last'.ret = "Ok"
                  /\ reviewer_applications' \in
                        WithNewResume(reviewer_applications, last'.key)
                  /\ UNCHANGED <<reviewers, reviewer_number, content_applications,
                                 asset_applications, thresholds, state>>
             ELSE /\ last'.ret = "InvalidReviewer"
                  /\ UNCHANGED <<store, state>>
      ]_vars

\* the resume of a pending application with a vote on record was replaced
C16_Witness ==
    /\ last.op = "update_reviewer_resume"
    /\ last.ret = "Ok"
    /\ MapHas(reviewer_applications, last.key)
    /\ reviewer_applications[last.key].rejected > 0
    /\ reviewer_applications[last.key].resume = Some("cv2")
    /\ \E o \in DOMAIN reviewers : reviewers[o].resume = Some("cv1")

\* ------------------------------------------------------------------------
\* C18
\* ------------------------------------------------------------------------

\* `content.approved += 1` at the largest u16 in a build with overflow
\* checks: the method panics, nothing is returned and nothing is written.
\* (Inc is what a build without overflow checks computes.)
approve_content_overflow_panic(reviewer, content_cid) ==
    /\ validate_content_review(reviewer, content_cid) = "Ok"
    /\ content_applications[content_cid].approved = U16 - 1
    /\ UNCHANGED <<store, state>>
    /\ last' = Call("approve_content", reviewer, content_cid, "panic", None)

\* approving votes on a content without the cap of the tally
ApproveContentUncapped(O) ==
    /\ Initialized
    /\ \E reviewer \in O, cid \in Cids : approve_content(reviewer, cid)

ApproveContentOverflowPanic(O) ==
    /\ Initialized
    /\ \E reviewer \in O, cid \in Cids : approve_content_overflow_panic(reviewer, cid)

\* one reviewer approving one content again and again
NextOverflow ==
    \/ Initialize
    \/ SubmitContent
    \/ ApproveContentUncapped(Creators)
    \/ ApproveContentOverflowPanic(Creators)

SpecOverflow == Init /\ [][NextOverflow]_vars

\* C18: counter overflow is an error, not a wrap.  A vote that would
\* increment a tally at the largest u16 fails with ArithmeticError and
\* leaves the state unchanged, and no vote makes a tally smaller.
C18_OverflowIsAnError ==
    /\ [][ (last'.op \in Votes /\ MapHas(reviewers, last'.caster)
              /\ MapHas(Pending(last'.op), last'.key)
              /\ Tally(last'.op, Pending(last'.op)[last'.key]) = U16 - 1)
             => /\ last'.ret = "ArithmeticError"
                /\ UNCHANGED store
         ]_vars
    /\ [][ (last'.op \in Votes /\ MapHas(Pending(last'.op), last'.key)
              /\ MapHas(PendingAfter(last'.op), last'.key))
             => Tally(last'.op, PendingAfter(last'.op)[last'.key])
                  >= Tally(last'.op, Pending(last'.op)[last'.key])
         ]_vars

\* ------------------------------------------------------------------------
\* C19
\* ------------------------------------------------------------------------

\* no record that is in m before and after the step lost a vote or a voter
NothingDecreases(m, mAfter) ==
    \A k \in (DOMAIN m) \cap (DOMAIN mAfter) :
        /\ mAfter[k].approved >= m[k].approved
        /\ mAfter[k].rejected >= m[k].rejected
        /\ m[k].reviewers \subseteq mAfter[k].reviewers

\* C19: tallies only grow.  While an application stays in its pending
\* table, no operation decreases its tallies or its voter set, and a valid
\* vote that does not resolve increments exactly the tally of its direction
\* of exactly that application by one and stores it.
C19_TalliesOnlyGrow ==
    /\ [][ /\ NothingDecreases(reviewer_applications, reviewer_applications')
           /\ NothingDecreases(content_applications, content_applications')
           /\ NothingDecreases(asset_applications, asset_applications')
         ]_vars
    /\ [][ (ValidVoteStep /\ ~Resolved(last'))
             => PendingAfter(last'.op)
                  = MapInsert(Pending(last'.op), last'.key,
                              Voted(last'.op, Pending(last'.op)[last'.key]))
         ]_vars

\* ------------------------------------------------------------------------
\* C20
\* ------------------------------------------------------------------------

\* C20: a fate is decided once.  After a vote that resolved an application,
\* no vote on the same key succeeds; in particular no reject call reports a
\* resolution of a content or asset that an approve call reported resolved,
\* and vice versa.
C20_FateDecidedOnce ==
    [][ (last.op \in Votes /\ Resolved(last)
           /\ last'.op \in Votes /\ Kind(last'.op) = Kind(last.op)
           /\ last'.key = last.key)
          => ~Succeeded(last')
      ]_vars

====
